---- MODULE Spec2Model ----
(***************************************************************************)
(* Library catalogue (src/app.py): books, users and loans kept in one      *)
(* SQLite store, with the request handlers add_book, add_user, borrow and  *)
(* return_book, and the fine computation of return_book and list_loans.    *)
(*                                                                         *)
(* Tables are sequences; a row's id is its position (rows are never        *)
(* deleted).  A calendar date is its proleptic Gregorian ordinal, as in    *)
(* datetime.date; a date string "%Y-%m-%d" is the triple <<y, m, d>>,      *)
(* whose lexicographic order is the order of the zero-padded strings.      *)
(***************************************************************************)
EXTENDS Integers, Sequences, FiniteSets, TLC

\* ------------------------------------------------------------------ bounds
\* First day of the modelled period (2023-12-20 as a date ordinal).
StartDay == 738874
\* Number of times the calendar date may change.
MaxTicks == 1
\* Number of days after StartDay the fine is computed over.
FineSpan == 75
\* Requests served at the same time, each on its own connection.
NumProcs == 2
\* Rows the tables may hold.
MaxBooks == 2
MaxUsers == 2
MaxLoans == 2
\* Connections one request slot may leave open before one is closed.
MaxOpen == 2

\* --------------------------------------------------------- program constants
\* FINE_RATE (src/app.py:12)
FINE_RATE == 5
\* timedelta(days=14) (src/app.py:367)
LoanPeriod == 14

\* Messages the handlers put in `error`; the names are the spec's error kinds.
NoError == "None"
BorrowMissingError == "Please select both a user and a book."
BorrowInvalidError == "Invalid user or book selection."
AvailabilityError == "This book is no longer available."
DuplicateLoanError == "This user has already borrowed this book and not returned it yet."
ReturnMissingError == "Please select a loan to return."
ReturnInvalidError == "Invalid loan selection."
NotFoundError == "That loan is not active or does not exist."
BookFieldsError == "All fields are required."
BookNumberError == "Total copies must be a number."
BookPositiveError == "Total copies must be greater than zero."
BookConflictError == "A book with that ISBN already exists."
UserFieldsError == "Name and email are required."
UserConflictError == "A user with that email already exists."

\* ------------------------------------------------------------------- dates
\* A date string never stored: loans.return_date IS NULL.
NULL == <<>>

Max(a, b) == IF a >= b THEN a ELSE b

\* date -> "%Y-%m-%d": the civil date of an ordinal (Gregorian calendar).
strftime(ord) ==
    LET z   == ord + 305
        era == z \div 146097
        doe == z - era * 146097
        yoe == (doe - doe \div 1460 + doe \div 36524 - doe \div 146096) \div 365
        doy == doe - (365 * yoe + yoe \div 4 - yoe \div 100)
        mp  == (5 * doy + 2) \div 153
        d   == doy - (153 * mp + 2) \div 5 + 1
        m   == IF mp < 10 THEN mp + 3 ELSE mp - 9
        y   == yoe + era * 400 + (IF m <= 2 THEN 1 ELSE 0)
    IN  <<y, m, d>>

\* "%Y-%m-%d" -> date: the ordinal of a civil date.
strptime(str) ==
    LET y   == str[1] - (IF str[2] <= 2 THEN 1 ELSE 0)
        era == y \div 400
        yoe == y - era * 400
        mp  == IF str[2] > 2 THEN str[2] - 3 ELSE str[2] + 9
        doy == (153 * mp + 2) \div 5 + str[3] - 1
        doe == yoe * 365 + yoe \div 4 - yoe \div 100 + doy
    IN  era * 146097 + doe - 305

\* ------------------------------------------------------------- form fields
\* A numeric form field arrives as a string (already stripped).
\* int(s) raises ValueError unless s is a decimal numeral.
IsInt(s) == s \in {"0", "1", "2", "3"}

int(s) == CASE s = "0" -> 0 [] s = "1" -> 1 [] s = "2" -> 2 [] s = "3" -> 3

\* Submitted forms: each field left empty in turn, a field that is no number,
\* and well-formed ones.
BookForms ==
    {<<"", "Herbert", "111", "1">>, <<"Dune", "", "111", "1">>,
     <<"Dune", "Herbert", "", "1">>, <<"Dune", "Herbert", "111", "">>}
    \cup {<<"Dune", "Herbert", "111", n>> : n \in {"abc", "0", "1", "2"}}
    \cup {<<"Emma", "Austen", "222", "1">>}

UserForms ==
    {<<"", "a@x">>, <<"Ann", "">>, <<"Ann", "a@x">>}

BorrowForms ==
    {<<"", "1">>, <<"1", "">>, <<"abc", "1">>, <<"1", "abc">>}
    \cup {<<u, b>> : u \in {"1", "2"}, b \in {"1", "2", "3"}}

ReturnForms == {"", "abc", "1", "2", "3"}

\* Days the calendar date advances by between two requests: enough for a
\* loan to become overdue.
TickDays == {LoanPeriod + 1}

\* ------------------------------------------------------------------- state
VARIABLES
    books,   \* table books: rows [title, author, isbn, total_copies, available_copies]
    users,   \* table users: rows [name, email]
    loans,   \* table loans: rows [user_id, book_id, borrow_date, due_date, return_date]
    now,     \* the calendar date datetime.now() returns (an ordinal)
    ticks,   \* how many times the date has changed (bounds the run)
    last,    \* the last request served: [op, args, error, out]
    calc,    \* a fine computation on its own: [pc, due, due_date, today, out,
             \* return_date, prev]
    pc,      \* per overlapping request: the statement it executes next
    req,     \* per overlapping request: the handler's local variables
    res,     \* how the overlapping request that finished last ended
    tx,      \* per connection: its open transaction, [open, books, loans, torn]
    conns,   \* per request slot: the connections its requests opened that
             \* are not closed (followed by SpecConn)
    torn,    \* history: the persisted store holds the first write of a
             \* borrow or return without the second
    snap     \* history: when the last request was a successful borrow, the books
             \* table before it and the loan it created; `returned` when the
             \* request after it returned that loan

vars == <<books, users, loans, now, ticks, last, calc, pc, req, res, tx, conns,
          torn, snap>>

\* The variables only overlapping requests use.
stepVars == <<pc, req, res, tx, conns, torn>>

Procs == 1 .. NumProcs

NoSnap == [set |-> FALSE, books |-> <<>>, loan_id |-> 0, returned |-> FALSE]

\* ---------------------------------------------------------------- statements
\* books.isbn is UNIQUE: the INSERT raises IntegrityError (src/app.py:77-79).
IsbnExists(bks, isbn) == \E i \in DOMAIN bks : bks[i].isbn = isbn

\* users.email is UNIQUE: the INSERT raises IntegrityError (src/app.py:110-112).
EmailExists(usrs, email) == \E i \in DOMAIN usrs : usrs[i].email = email

\* INSERT INTO books (title, author, isbn, total_copies, available_copies)
InsertBook(bks, title, author, isbn, total_copies_int) ==
    Append(bks, [title |-> title, author |-> author, isbn |-> isbn,
                 total_copies |-> total_copies_int,
                 available_copies |-> total_copies_int])

\* INSERT INTO users (name, email)
InsertUser(usrs, name, email) == Append(usrs, [name |-> name, email |-> email])

\* SELECT available_copies FROM books WHERE id = ?  (the rows fetched: none or one)
SelectAvailableCopies(bks, book_id) ==
    {bks[i].available_copies : i \in {j \in DOMAIN bks : j = book_id}}

\* Mutant: the comparison is strict.
BookUnavailable_strict(book) == book = {} \/ \E c \in book : c < 0

\* Mutant: only the missing row is tested.
BookUnavailable_rowonly(book) == book = {}

\* not book or book["available_copies"] <= 0
BookUnavailable(book) == book = {} \/ \E c \in book : c <= 0

\* Mutant: the test on return_date is inverted (IS NOT NULL).
SelectExistingLoan_returned(lns, user_id, book_id) ==
    {i \in DOMAIN lns : /\ lns[i].user_id = user_id
                        /\ lns[i].book_id = book_id
                        /\ lns[i].return_date # NULL}

\* Mutant: the two parameters are bound in the wrong order.
SelectExistingLoan_swapped(lns, user_id, book_id) ==
    {i \in DOMAIN lns : /\ lns[i].user_id = book_id
                        /\ lns[i].book_id = user_id
                        /\ lns[i].return_date = NULL}

\* SELECT id FROM loans WHERE user_id = ? AND book_id = ? AND return_date IS NULL
SelectExistingLoan(lns, user_id, book_id) ==
    {i \in DOMAIN lns : /\ lns[i].user_id = user_id
                        /\ lns[i].book_id = book_id
                        /\ lns[i].return_date = NULL}

\* INSERT INTO loans (user_id, book_id, borrow_date, due_date, return_date)
\* VALUES (?, ?, ?, ?, NULL)
InsertLoan(lns, user_id, book_id, borrow_date, due_date) ==
    Append(lns, [user_id |-> user_id, book_id |-> book_id,
                 borrow_date |-> borrow_date, due_date |-> due_date,
                 return_date |-> NULL])

\* Mutant: the UPDATE has no WHERE clause.
DecrementAvailable_all(bks, book_id) ==
    [i \in DOMAIN bks |-> [bks[i] EXCEPT !.available_copies = @ - 1]]

\* UPDATE books SET available_copies = available_copies - 1 WHERE id = ?
DecrementAvailable(bks, book_id) ==
    [i \in DOMAIN bks |->
        IF i = book_id
        THEN [bks[i] EXCEPT !.available_copies = @ - 1]
        ELSE bks[i]]

\* Mutant: the loan is looked up by id alone.
SelectActiveLoan_any(lns, loan_id) == {i \in DOMAIN lns : i = loan_id}

\* SELECT id, book_id, due_date FROM loans WHERE id = ? AND return_date IS NULL
SelectActiveLoan(lns, loan_id) ==
    {i \in DOMAIN lns : i = loan_id /\ lns[i].return_date = NULL}

\* Mutant: the UPDATE has no WHERE clause.
UpdateReturnDate_all(lns, loan_id, date_str) ==
    [i \in DOMAIN lns |-> [lns[i] EXCEPT !.return_date = date_str]]

\* UPDATE loans SET return_date = ? WHERE id = ?
UpdateReturnDate(lns, loan_id, date_str) ==
    [i \in DOMAIN lns |->
        IF i = loan_id
        THEN [lns[i] EXCEPT !.return_date = date_str]
        ELSE lns[i]]

\* Mutant: the UPDATE has no WHERE clause.
IncrementAvailable_all(bks, book_id) ==
    [i \in DOMAIN bks |-> [bks[i] EXCEPT !.available_copies = @ + 1]]

\* UPDATE books SET available_copies = available_copies + 1 WHERE id = ?
IncrementAvailable(bks, book_id) ==
    [i \in DOMAIN bks |->
        IF i = book_id
        THEN [bks[i] EXCEPT !.available_copies = @ + 1]
        ELSE bks[i]]

\* Mutant: the lateness is not clamped at zero.
return_book_calculate_fine_signed(due_date_str, today) ==
    LET due_date  == strptime(due_date_str)
        days_late == today - due_date
    IN  <<days_late, days_late * FINE_RATE>>

\* return_book.calculate_fine: <<days_late, fine_amount>>
return_book_calculate_fine(due_date_str, today) ==
    LET due_date  == strptime(due_date_str)
        days_late == Max(today - due_date, 0)
    IN  <<days_late, days_late * FINE_RATE>>

\* list_loans.calculate_fine: <<days_late, fine_amount>>
list_loans_calculate_fine(due_date_str, today) ==
    LET due_date  == strptime(due_date_str)
        days_late == Max(today - due_date, 0)
    IN  <<days_late, days_late * FINE_RATE>>

\* a < b for two "%Y-%m-%d" texts, as the store compares them in ORDER BY
TextLess(a, b) ==
    \/ a[1] < b[1]
    \/ a[1] = b[1] /\ a[2] < b[2]
    \/ a[1] = b[1] /\ a[2] = b[2] /\ a[3] < b[3]

\* SELECT ... FROM loans JOIN users ON loans.user_id = users.id
\*   JOIN books ON loans.book_id = books.id
\*   WHERE loans.return_date IS NULL ORDER BY loans.due_date ASC:
\* the orders the ids of the selected loans can come in (rows with one
\* due_date come in an order the store chooses).
SelectActiveLoansJoined(lns, usrs, bks) ==
    LET ids == {i \in DOMAIN lns : /\ lns[i].return_date = NULL
                                   /\ lns[i].user_id \in DOMAIN usrs
                                   /\ lns[i].book_id \in DOMAIN bks}
    IN  {rows \in [1 .. Cardinality(ids) -> ids] :
            /\ \A k, l \in DOMAIN rows : rows[k] = rows[l] => k = l
            /\ \A k, l \in DOMAIN rows :
                  k < l => ~TextLess(lns[rows[l]].due_date, lns[rows[k]].due_date)}

\* ------------------------------------------------------------------ requests
Request(op, args, error, out) ==
    [op |-> op, args |-> args, error |-> error, out |-> out]

\* calculate_fine applied to no input yet.
Calc(at, due, today, out, return_date, prev) ==
    [pc |-> at, due |-> due, due_date |-> strftime(due), today |-> today,
     out |-> out, return_date |-> return_date, prev |-> prev]

InitStore ==
    /\ books = <<>>
    /\ users = <<>>
    /\ loans = <<>>
    /\ now = StartDay
    /\ ticks = 0
    /\ last = Request("start", <<>>, NoError, <<>>)
    /\ snap = NoSnap

NoTx == [open |-> FALSE, books |-> <<>>, users |-> <<>>, loans |-> <<>>,
         torn |-> FALSE]

NoReq == [user_id |-> 0, book_id |-> 0, loan_id |-> 0, form |-> <<>>]

InitSteps ==
    /\ pc = [p \in Procs |-> "idle"]
    /\ req = [p \in Procs |-> NoReq]
    /\ res = "start"
    /\ tx = [p \in Procs |-> NoTx]
    /\ conns = [p \in Procs |-> 0]
    /\ torn = FALSE

InitCalc == calc = Calc("input", StartDay, StartDay, <<>>, NULL, <<>>)

Init == InitStore /\ InitCalc /\ InitSteps

\* Mutant: a total of zero copies is accepted.
add_book_validate_zero(title, author, isbn, total_copies) ==
    IF title = "" \/ author = "" \/ isbn = "" \/ total_copies = ""
    THEN BookFieldsError
    ELSE IF ~IsInt(total_copies) THEN BookNumberError
    ELSE IF int(total_copies) < 0 THEN BookPositiveError
    ELSE NoError

\* The error add_book's validation leaves (src/app.py:46-56).
add_book_validate(title, author, isbn, total_copies) ==
    IF title = "" \/ author = "" \/ isbn = "" \/ total_copies = ""
    THEN BookFieldsError
    ELSE IF ~IsInt(total_copies) THEN BookNumberError
    ELSE IF int(total_copies) <= 0 THEN BookPositiveError
    ELSE NoError

\* Mutant: the IntegrityError is caught and no error is reported.
add_book_outcome_silent(error, conflict) ==
    IF error # NoError THEN error ELSE NoError

\* The error add_book renders: the validation's, or, when the INSERT ran and
\* raised sqlite3.IntegrityError, the conflict message (src/app.py:58-79).
add_book_outcome(error, conflict) ==
    IF error # NoError THEN error
    ELSE IF conflict THEN BookConflictError
    ELSE NoError

\* Mutant: the IntegrityError is caught and no error is reported.
add_user_outcome_silent(invalid, conflict) ==
    IF invalid THEN UserFieldsError ELSE NoError

\* The error add_user renders (src/app.py:98-112).
add_user_outcome(invalid, conflict) ==
    IF invalid THEN UserFieldsError
    ELSE IF conflict THEN UserConflictError
    ELSE NoError

\* POST /add_book
AddBook(title, author, isbn, total_copies) ==
    LET error == add_book_validate(title, author, isbn, total_copies)
        args  == <<title, author, isbn, total_copies>>
    IN  /\ IF error = NoError /\ ~IsbnExists(books, isbn)
           THEN /\ Len(books) < MaxBooks
                /\ books' = InsertBook(books, title, author, isbn, int(total_copies))
                /\ last' = Request("add_book", args, NoError, <<>>)
                /\ snap' = NoSnap
           ELSE /\ books' = books
                /\ last' = Request("add_book", args,
                                   add_book_outcome(error, IsbnExists(books, isbn)),
                                   <<>>)
                /\ snap' = NoSnap
        /\ UNCHANGED <<users, loans, now, ticks, calc>>

\* POST /add_user
AddUser(name, email) ==
    LET invalid == name = "" \/ email = ""
        args    == <<name, email>>
    IN  /\ IF ~invalid /\ ~EmailExists(users, email)
           THEN /\ Len(users) < MaxUsers
                /\ users' = InsertUser(users, name, email)
                /\ last' = Request("add_user", args, NoError, <<>>)
                /\ snap' = NoSnap
           ELSE /\ users' = users
                /\ last' = Request("add_user", args,
                                   add_user_outcome(invalid, EmailExists(users, email)),
                                   <<>>)
                /\ snap' = NoSnap
        /\ UNCHANGED <<books, loans, now, ticks, calc>>

\* The error borrow's checks leave (src/app.py:333-362).
borrow_check(bks, lns, user_id, book_id) ==
    IF user_id = "" \/ book_id = "" THEN BorrowMissingError
    ELSE IF ~IsInt(user_id) \/ ~IsInt(book_id) THEN BorrowInvalidError
    ELSE IF BookUnavailable(SelectAvailableCopies(bks, int(book_id)))
         THEN AvailabilityError
    ELSE IF SelectExistingLoan(lns, int(user_id), int(book_id)) # {}
         THEN DuplicateLoanError
    ELSE NoError

\* POST /borrow.  datetime.now() is read twice (src/app.py:366-367): the
\* second read returns the date `later`, the same day or the next one.
Borrow(user_id, book_id, later) ==
    LET error       == borrow_check(books, loans, user_id, book_id)
        borrow_date == strftime(now)
        due_date    == strftime(later + LoanPeriod)
        args        == <<user_id, book_id>>
    IN  IF error = NoError
        THEN /\ Len(loans) < MaxLoans
             /\ later # now => ticks < MaxTicks
             /\ loans' = InsertLoan(loans, int(user_id), int(book_id),
                                    borrow_date, due_date)
             /\ books' = DecrementAvailable(books, int(book_id))
             /\ now' = later
             /\ ticks' = IF later = now THEN ticks ELSE ticks + 1
             /\ last' = Request("borrow", args, NoError, <<due_date>>)
             /\ snap' = [set |-> TRUE, books |-> books,
                          loan_id |-> Len(loans) + 1, returned |-> FALSE]
             /\ UNCHANGED <<users, calc>>
        ELSE /\ later = now
             /\ last' = Request("borrow", args, error, <<>>)
             /\ snap' = NoSnap
             /\ UNCHANGED <<books, users, loans, now, ticks, calc>>

\* The error return_book's checks leave (src/app.py:214-230).
return_check(lns, loan_id) ==
    IF loan_id = "" THEN ReturnMissingError
    ELSE IF ~IsInt(loan_id) THEN ReturnInvalidError
    ELSE IF SelectActiveLoan(lns, int(loan_id)) = {} THEN NotFoundError
    ELSE NoError

\* POST /return.  today is read once (src/app.py:167).
ReturnBook(loan_id) ==
    LET today == now
        error == return_check(loans, loan_id)
        args  == <<loan_id>>
    IN  IF error = NoError
        THEN LET loan_row == loans[int(loan_id)]
                 result   == return_book_calculate_fine(loan_row.due_date, today)
             IN  /\ loans' = UpdateReturnDate(loans, int(loan_id), strftime(today))
                 /\ books' = IncrementAvailable(books, loan_row.book_id)
                 /\ last' = Request("return", args, NoError, result)
                 /\ snap' = IF snap.set /\ ~snap.returned /\ snap.loan_id = int(loan_id)
                            THEN [snap EXCEPT !.returned = TRUE]
                            ELSE NoSnap
                 /\ UNCHANGED <<users, now, ticks, calc>>
        ELSE /\ last' = Request("return", args, error, <<>>)
             /\ snap' = NoSnap
             /\ UNCHANGED <<books, users, loans, now, ticks, calc>>

\* GET /loans: the active loans with their fines as of today.
ListLoans ==
    /\ \E rows \in SelectActiveLoansJoined(loans, users, books) :
          last' = Request("loans", <<>>, NoError,
                          [k \in DOMAIN rows |->
                             [id       |-> rows[k],
                              due_date |-> loans[rows[k]].due_date,
                              fine     |-> list_loans_calculate_fine(
                                              loans[rows[k]].due_date, now)]])
    /\ snap' = NoSnap
    /\ UNCHANGED <<books, users, loans, now, ticks, calc>>

\* GET /return: the form, with the active loans it offers.
ReturnForm ==
    /\ \E rows \in SelectActiveLoansJoined(loans, users, books) :
          last' = Request("return_form", <<>>, NoError,
                          [k \in DOMAIN rows |->
                             [id       |-> rows[k],
                              due_date |-> loans[rows[k]].due_date,
                              fine     |-> return_book_calculate_fine(
                                              loans[rows[k]].due_date, now)]])
    /\ snap' = NoSnap
    /\ UNCHANGED <<books, users, loans, now, ticks, calc>>

\* The calendar date advances between two requests.
Tick(days) ==
    /\ ticks < MaxTicks
    /\ now' = now + days
    /\ ticks' = ticks + 1
    /\ last' = Request("tick", <<>>, NoError, <<>>)
    /\ snap' = NoSnap
    /\ UNCHANGED <<books, users, loans, calc>>

NextStore ==
    \/ \E form \in BookForms : AddBook(form[1], form[2], form[3], form[4])
    \/ \E form \in UserForms : AddUser(form[1], form[2])
    \/ \E form \in BorrowForms, later \in {now, now + 1} :
          Borrow(form[1], form[2], later)
    \/ \E loan_id \in ReturnForms : ReturnBook(loan_id)
    \/ ListLoans
    \/ ReturnForm
    \/ \E days \in TickDays : Tick(days)

Next == NextStore /\ UNCHANGED stepVars

Spec == Init /\ [][Next]_vars

\* ------------------------------------------------------ the fine on its own
\* return_book and list_loans each compute the fine from a loan's due_date
\* and today's date; here a due date and a today are drawn from FineDays and
\* each computation is applied to them, then again a day later.
FineDays == StartDay .. StartDay + FineSpan

InitFine ==
    /\ InitStore
    /\ InitSteps
    /\ \E due \in FineDays, today \in FineDays :
          calc = Calc("input", due, today, <<>>, NULL, <<>>)

\* return_book on a loan due calc.due_date, served on calc.today
\* (src/app.py:234-239): the fine reported and the return_date stored.
FineOnReturn ==
    /\ calc.pc = "input"
    /\ calc' = Calc("return", calc.due, calc.today,
                    return_book_calculate_fine(calc.due_date, calc.today),
                    strftime(calc.today), <<>>)

\* list_loans on a loan due calc.due_date, served on calc.today
\* (src/app.py:289-290).
FineOnList ==
    /\ calc.pc = "input"
    /\ calc' = Calc("list", calc.due, calc.today,
                    list_loans_calculate_fine(calc.due_date, calc.today),
                    NULL, <<>>)

\* The same computation a day later; prev keeps the earlier result.
FineNextDay ==
    /\ calc.pc # "input"
    /\ calc.prev = <<>>
    /\ calc.today + 1 \in FineDays
    /\ calc' = IF calc.pc = "return"
               THEN Calc("return", calc.due, calc.today + 1,
                         return_book_calculate_fine(calc.due_date, calc.today + 1),
                         strftime(calc.today + 1), calc.out)
               ELSE Calc("list", calc.due, calc.today + 1,
                         list_loans_calculate_fine(calc.due_date, calc.today + 1),
                         NULL, calc.out)

NextFine ==
    /\ FineOnReturn \/ FineOnList \/ FineNextDay
    /\ UNCHANGED <<books, users, loans, now, ticks, last, snap>>
    /\ UNCHANGED stepVars

SpecFine == InitFine /\ [][NextFine]_vars

\* --------------------------------------------------- overlapping requests
\* borrow and return_book statement by statement, NumProcs requests at a
\* time, each on a connection of its own.  A connection reads the persisted
\* store, or its own transaction once it has written; sqlite3 opens the
\* transaction at the first INSERT or UPDATE, lets one connection write at a
\* time, commits when the `with` block ends and rolls back when it raises.
\* The catalogue holds one book with one or two copies and a registered user;
\* the date does not change.
InitOverlap ==
    /\ \E n \in {1, 2} :
          books = InsertBook(<<>>, "Dune", "Herbert", "111", n)
    /\ users = InsertUser(<<>>, "Ann", "a@x")
    /\ loans = <<>>
    /\ now = StartDay
    /\ ticks = 0
    /\ last = Request("start", <<>>, NoError, <<>>)
    /\ snap = NoSnap
    /\ InitCalc
    /\ InitSteps

\* What a statement of connection p reads.
StoreSeen(p) ==
    IF tx[p].open
    THEN [books |-> tx[p].books, users |-> tx[p].users, loans |-> tx[p].loans,
          torn |-> tx[p].torn]
    ELSE [books |-> books, users |-> users, loans |-> loans, torn |-> torn]

\* Mutant: the connection is in autocommit mode, every statement persists.
Write_autocommit(p, bks, lns, half) ==
    /\ books' = bks
    /\ loans' = lns
    /\ torn' = half
    /\ UNCHANGED tx

\* conn.execute of an INSERT or UPDATE: the tables as the statement leaves
\* them stay in the connection's transaction until it commits.
Write(p, bks, lns, half) ==
    /\ tx' = [tx EXCEPT ![p] = [open |-> TRUE, books |-> bks,
                                users |-> StoreSeen(p).users, loans |-> lns,
                                torn |-> half]]
    /\ UNCHANGED <<books, loans, torn>>

\* No other connection holds the write lock.
MayWrite(p) == \A q \in Procs \ {p} : ~tx[q].open

\* The request of p ends with `error` before it has written anything.
Refuse(p, error) ==
    /\ pc' = [pc EXCEPT ![p] = "idle"]
    /\ req' = [req EXCEPT ![p] = NoReq]
    /\ res' = error

\* borrow up to the form's validation (src/app.py:312-340)
BorrowBegin(p, user_id, book_id) ==
    /\ pc[p] = "idle"
    /\ IF user_id = "" \/ book_id = "" THEN Refuse(p, BorrowMissingError)
       ELSE IF ~IsInt(user_id) \/ ~IsInt(book_id) THEN Refuse(p, BorrowInvalidError)
       ELSE /\ pc' = [pc EXCEPT ![p] = "available"]
            /\ req' = [req EXCEPT ![p] = [NoReq EXCEPT !.user_id = int(user_id),
                                                       !.book_id = int(book_id)]]
            /\ UNCHANGED res
    /\ UNCHANGED <<books, loans, tx, torn>>

\* the availability check (src/app.py:342-349)
BorrowAvailable(p) ==
    /\ pc[p] = "available"
    /\ IF BookUnavailable(SelectAvailableCopies(StoreSeen(p).books, req[p].book_id))
       THEN Refuse(p, AvailabilityError)
       ELSE /\ pc' = [pc EXCEPT ![p] = "existing"]
            /\ UNCHANGED <<req, res>>
    /\ UNCHANGED <<books, loans, tx, torn>>

\* the duplicate-loan check (src/app.py:351-362)
BorrowExisting(p) ==
    /\ pc[p] = "existing"
    /\ IF SelectExistingLoan(StoreSeen(p).loans, req[p].user_id, req[p].book_id) # {}
       THEN Refuse(p, DuplicateLoanError)
       ELSE /\ pc' = [pc EXCEPT ![p] = "insert"]
            /\ UNCHANGED <<req, res>>
    /\ UNCHANGED <<books, loans, tx, torn>>

\* the dates and the INSERT INTO loans (src/app.py:364-376)
BorrowInsert(p) ==
    /\ pc[p] = "insert"
    /\ MayWrite(p)
    /\ Len(StoreSeen(p).loans) < MaxLoans
    /\ Write(p, StoreSeen(p).books,
             InsertLoan(StoreSeen(p).loans, req[p].user_id, req[p].book_id,
                        strftime(now), strftime(now + LoanPeriod)),
             TRUE)
    /\ pc' = [pc EXCEPT ![p] = "decrement"]
    /\ UNCHANGED <<req, res>>

\* the UPDATE books (src/app.py:377-380)
BorrowDecrement(p) ==
    /\ pc[p] = "decrement"
    /\ Write(p, DecrementAvailable(StoreSeen(p).books, req[p].book_id),
             StoreSeen(p).loans, FALSE)
    /\ pc' = [pc EXCEPT ![p] = "commit"]
    /\ UNCHANGED <<req, res>>

\* return_book up to the form's validation (src/app.py:167-220)
ReturnBegin(p, loan_id) ==
    /\ pc[p] = "idle"
    /\ IF loan_id = "" THEN Refuse(p, ReturnMissingError)
       ELSE IF ~IsInt(loan_id) THEN Refuse(p, ReturnInvalidError)
       ELSE /\ pc' = [pc EXCEPT ![p] = "lookup"]
            /\ req' = [req EXCEPT ![p] = [NoReq EXCEPT !.loan_id = int(loan_id)]]
            /\ UNCHANGED res
    /\ UNCHANGED <<books, loans, tx, torn>>

\* the lookup of the active loan (src/app.py:222-230)
ReturnLookup(p) ==
    /\ pc[p] = "lookup"
    /\ IF SelectActiveLoan(StoreSeen(p).loans, req[p].loan_id) = {}
       THEN Refuse(p, NotFoundError)
       ELSE /\ pc' = [pc EXCEPT ![p] = "set_date"]
            /\ req' = [req EXCEPT ![p].book_id =
                          StoreSeen(p).loans[req[p].loan_id].book_id]
            /\ UNCHANGED res
    /\ UNCHANGED <<books, loans, tx, torn>>

\* the UPDATE loans (src/app.py:236-239)
ReturnSetDate(p) ==
    /\ pc[p] = "set_date"
    /\ MayWrite(p)
    /\ Write(p, StoreSeen(p).books,
             UpdateReturnDate(StoreSeen(p).loans, req[p].loan_id, strftime(now)),
             TRUE)
    /\ pc' = [pc EXCEPT ![p] = "increment"]
    /\ UNCHANGED <<req, res>>

\* the UPDATE books (src/app.py:240-243)
ReturnIncrement(p) ==
    /\ pc[p] = "increment"
    /\ Write(p, IncrementAvailable(StoreSeen(p).books, req[p].book_id),
             StoreSeen(p).loans, FALSE)
    /\ pc' = [pc EXCEPT ![p] = "commit"]
    /\ UNCHANGED <<req, res>>

\* the `with` block ends: the transaction is committed
Commit(p) ==
    /\ pc[p] = "commit"
    /\ IF tx[p].open
       THEN /\ books' = tx[p].books
            /\ loans' = tx[p].loans
            /\ torn' = tx[p].torn
       ELSE UNCHANGED <<books, loans, torn>>
    /\ tx' = [tx EXCEPT ![p] = NoTx]
    /\ pc' = [pc EXCEPT ![p] = "idle"]
    /\ req' = [req EXCEPT ![p] = NoReq]
    /\ res' = NoError

\* a statement raises (the store is locked, out of space, ...): the `with`
\* block rolls the transaction back
Raise(p) ==
    /\ pc[p] # "idle"
    /\ tx' = [tx EXCEPT ![p] = NoTx]
    /\ pc' = [pc EXCEPT ![p] = "idle"]
    /\ req' = [req EXCEPT ![p] = NoReq]
    /\ res' = IF tx[p].open /\ tx[p].torn
              THEN "raised between the writes"
              ELSE "raised"
    /\ UNCHANGED <<books, loans, torn>>

\* One step of the borrow or return_book request in slot p.
Statement(p) ==
    \/ \E form \in BorrowForms : BorrowBegin(p, form[1], form[2])
    \/ BorrowAvailable(p)
    \/ BorrowExisting(p)
    \/ BorrowInsert(p)
    \/ BorrowDecrement(p)
    \/ \E loan_id \in ReturnForms : ReturnBegin(p, loan_id)
    \/ ReturnLookup(p)
    \/ ReturnSetDate(p)
    \/ ReturnIncrement(p)
    \/ Commit(p)
    \/ Raise(p)

NextOverlap ==
    /\ \E p \in Procs : Statement(p)
    /\ UNCHANGED <<users, now, ticks, last, calc, snap, conns>>

SpecOverlap == InitOverlap /\ [][NextOverlap]_vars

\* ------------------------------------------------------------ connections
\* borrow and return_book open their connection with get_db_connection() as
\* the handler starts (src/app.py:312, 176) and never call close(): leaving
\* the `with` block commits or rolls back, and the connection is closed when
\* the last reference to it goes.  When the handler returns, its frame and
\* with it the connection are freed.  When a statement raises, the exception
\* leaves the handler with a traceback that refers to the frame, and the
\* connection stays open until the traceback is dropped.
Raised == {"raised", "raised between the writes"}

\* The connections of slot p after a step of its request.
TrackConnection(p) ==
    LET opened   == IF pc[p] = "idle" THEN 1 ELSE 0
        returned == pc'[p] = "idle" /\ ~(pc[p] # "idle" /\ res' \in Raised)
        closed   == IF returned THEN 1 ELSE 0
    IN  conns' = [conns EXCEPT ![p] = @ + opened - closed]

\* The traceback of a request of slot p that raised is dropped: the
\* connection it kept is closed.
Collect(p) ==
    /\ pc[p] = "idle"
    /\ conns[p] > 0
    /\ conns' = [conns EXCEPT ![p] = @ - 1]
    /\ UNCHANGED <<books, loans, pc, req, res, tx, torn>>

NextConn ==
    /\ \E p \in Procs :
          \/ /\ conns[p] < MaxOpen
             /\ Statement(p)
             /\ TrackConnection(p)
          \/ Collect(p)
    /\ UNCHANGED <<users, now, ticks, last, calc, snap>>

SpecConn == InitOverlap /\ [][NextConn]_vars

\* ------------------------------------------------- overlapping registrations
\* add_book and add_user statement by statement, NumProcs requests at a time:
\* the form is validated, then the INSERT runs in a `with` block that commits
\* when it ends.  The store refuses an INSERT whose isbn (email) a row already
\* has: conn.execute raises sqlite3.IntegrityError and the handler renders
\* the conflict message.
RegisterUserForms == UserForms \cup {<<"Bob", "b@x">>}

\* conn.execute of an INSERT into books or users.
WriteRows(p, bks, usrs) ==
    /\ tx' = [tx EXCEPT ![p] = [open |-> TRUE, books |-> bks, users |-> usrs,
                                loans |-> StoreSeen(p).loans, torn |-> FALSE]]
    /\ UNCHANGED <<books, users>>

\* add_book up to the form's validation (src/app.py:38-58)
AddBookBegin(p, form) ==
    /\ pc[p] = "idle"
    /\ LET error == add_book_validate(form[1], form[2], form[3], form[4])
       IN  IF error # NoError
           THEN Refuse(p, add_book_outcome(error, FALSE))
           ELSE /\ pc' = [pc EXCEPT ![p] = "insert_book"]
                /\ req' = [req EXCEPT ![p] = [NoReq EXCEPT !.form = form]]
                /\ UNCHANGED res
    /\ UNCHANGED <<books, users, tx>>

\* INSERT INTO books (src/app.py:60-79)
AddBookInsert(p) ==
    /\ pc[p] = "insert_book"
    /\ MayWrite(p)
    /\ LET form == req[p].form
       IN  IF IsbnExists(StoreSeen(p).books, form[3])
           THEN /\ Refuse(p, add_book_outcome(NoError, TRUE))
                /\ UNCHANGED <<books, users, tx>>
           ELSE /\ Len(StoreSeen(p).books) < MaxBooks
                /\ WriteRows(p, InsertBook(StoreSeen(p).books, form[1], form[2],
                                           form[3], int(form[4])),
                             StoreSeen(p).users)
                /\ pc' = [pc EXCEPT ![p] = "commit_row"]
                /\ UNCHANGED <<req, res>>

\* add_user up to the form's validation (src/app.py:92-102)
AddUserBegin(p, form) ==
    /\ pc[p] = "idle"
    /\ LET invalid == form[1] = "" \/ form[2] = ""
       IN  IF invalid
           THEN Refuse(p, add_user_outcome(invalid, FALSE))
           ELSE /\ pc' = [pc EXCEPT ![p] = "insert_user"]
                /\ req' = [req EXCEPT ![p] = [NoReq EXCEPT !.form = form]]
                /\ UNCHANGED res
    /\ UNCHANGED <<books, users, tx>>

\* INSERT INTO users (src/app.py:103-112)
AddUserInsert(p) ==
    /\ pc[p] = "insert_user"
    /\ MayWrite(p)
    /\ LET form == req[p].form
       IN  IF EmailExists(StoreSeen(p).users, form[2])
           THEN /\ Refuse(p, add_user_outcome(FALSE, TRUE))
                /\ UNCHANGED <<books, users, tx>>
           ELSE /\ Len(StoreSeen(p).users) < MaxUsers
                /\ WriteRows(p, StoreSeen(p).books,
                             InsertUser(StoreSeen(p).users, form[1], form[2]))
                /\ pc' = [pc EXCEPT ![p] = "commit_row"]
                /\ UNCHANGED <<req, res>>

\* the `with` block of add_book or add_user ends: the row is committed
CommitRow(p) ==
    /\ pc[p] = "commit_row"
    /\ books' = tx[p].books
    /\ users' = tx[p].users
    /\ tx' = [tx EXCEPT ![p] = NoTx]
    /\ pc' = [pc EXCEPT ![p] = "idle"]
    /\ req' = [req EXCEPT ![p] = NoReq]
    /\ res' = NoError

\* the INSERT or the commit raises another error: the row is rolled back
RaiseRow(p) ==
    /\ Raise(p)
    /\ UNCHANGED users

NextRegister ==
    /\ \E p \in Procs :
          \/ \E form \in BookForms : AddBookBegin(p, form)
          \/ AddBookInsert(p)
          \/ \E form \in RegisterUserForms : AddUserBegin(p, form)
          \/ AddUserInsert(p)
          \/ CommitRow(p)
          \/ RaiseRow(p)
    /\ UNCHANGED <<loans, torn, now, ticks, last, calc, snap, conns>>

SpecRegister == Init /\ [][NextRegister]_vars

\* ------------------------------------------------------------------- claims
ActiveLoans(lns) == {i \in DOMAIN lns : lns[i].return_date = NULL}

\* C1: after any sequence of add_book, borrow and return_book requests served
\* one at a time, every book has 0 <= available_copies <= total_copies.
C1_AvailableWithinTotal ==
    \A i \in DOMAIN books :
        /\ 0 <= books[i].available_copies
        /\ books[i].available_copies <= books[i].total_copies

\* A book with every copy lent out, next to a book with every copy back after
\* a return.
C1_Witness ==
    /\ \E i \in DOMAIN books : books[i].available_copies = 0
    /\ \E i \in DOMAIN loans :
          /\ loans[i].return_date # NULL
          /\ books[loans[i].book_id].available_copies
                = books[loans[i].book_id].total_copies

\* C2: for every book, available_copies is total_copies minus the number of
\* its loans whose return_date is NULL.
C2_AvailableIsTotalMinusActive ==
    \A i \in DOMAIN books :
        books[i].available_copies
            = books[i].total_copies
                - Cardinality({l \in ActiveLoans(loans) : loans[l].book_id = i})

\* A book with one loan still active and another already returned, with a
\* user registered.
C2_Witness ==
    /\ users # <<>>
    /\ \E a \in ActiveLoans(loans), r \in DOMAIN loans :
          /\ loans[r].return_date # NULL
          /\ loans[r].book_id = loans[a].book_id

\* C3: every (user_id, book_id) pair has at most one loan with return_date NULL.
C3_OneActiveLoanPerPair ==
    \A a \in ActiveLoans(loans), b \in ActiveLoans(loans) :
        (loans[a].user_id = loans[b].user_id /\ loans[a].book_id = loans[b].book_id)
            => a = b

\* A pair borrowed again after its first loan was returned: two loans of the
\* pair, one of them active.
C3_Witness ==
    \E a \in ActiveLoans(loans), r \in DOMAIN loans :
        /\ loans[r].return_date # NULL
        /\ loans[r].user_id = loans[a].user_id
        /\ loans[r].book_id = loans[a].book_id

\* C4: the two writes of a borrow, and the two of a return, are committed
\* together or not at all: the persisted store, and so what any connection
\* without a transaction of its own reads, never holds the first write without
\* the second, whether the request goes on, commits or raises in between.
C4_WritesCommittedTogether ==
    /\ ~torn
    /\ \A p \in Procs : ~tx[p].open => ~StoreSeen(p).torn

\* A request that has made its first write only, while another connection is
\* about to read, after the request that finished last raised between its two
\* writes.
C4_Witness ==
    \E p \in Procs, q \in Procs :
        /\ tx[p].open
        /\ tx[p].torn
        /\ pc[q] \in {"available", "lookup"}
        /\ res = "raised between the writes"
        /\ loans # <<>>

\* The step serves a borrow request whose two ids are numbers.
BorrowStep == last'.op = "borrow" /\ IsInt(last'.args[1]) /\ IsInt(last'.args[2])

\* C5: a borrow of a book that has no copy available, or of a book id that
\* names no book, fails with AvailabilityError whoever the user is, and changes
\* neither the loans nor any book.
C5_NoCopyNoLoan ==
    [][(/\ BorrowStep
        /\ LET b == int(last'.args[2])
           IN  b \notin DOMAIN books \/ books[b].available_copies = 0)
       => (/\ last'.error = AvailabilityError
           /\ loans' = loans
           /\ books' = books)]_vars

\* A borrow refused on an existing book that has no copy left.
C5_Witness ==
    /\ last.op = "borrow"
    /\ last.error = AvailabilityError
    /\ IsInt(last.args[2])
    /\ int(last.args[2]) \in DOMAIN books
    /\ books[int(last.args[2])].available_copies = 0

\* The user of the borrow request served by the step holds an active loan on
\* the requested book.
HoldsActiveLoan ==
    \E l \in ActiveLoans(loans) :
        /\ loans[l].user_id = int(last'.args[1])
        /\ loans[l].book_id = int(last'.args[2])

\* C6 as claimed: a borrow by a user who holds an active loan on the book
\* fails with DuplicateLoanError whatever the book's available_copies, and
\* changes neither the loans nor any book.
C6_Claimed ==
    [][(BorrowStep /\ HoldsActiveLoan)
       => (/\ last'.error = DuplicateLoanError
           /\ loans' = loans
           /\ books' = books)]_vars

\* C6 amended: such a borrow fails with DuplicateLoanError when the book has
\* a copy available and with AvailabilityError when it has none; either way it
\* changes neither the loans nor any book.
C6_DuplicateRefused ==
    [][(BorrowStep /\ HoldsActiveLoan)
       => (/\ last'.error = IF books[int(last'.args[2])].available_copies > 0
                            THEN DuplicateLoanError
                            ELSE AvailabilityError
           /\ loans' = loans
           /\ books' = books)]_vars

\* A borrow refused as a duplicate while the book still has a copy available.
C6_Witness ==
    /\ last.op = "borrow"
    /\ last.error = DuplicateLoanError
    /\ books[int(last.args[2])].available_copies > 0
    /\ \E l \in ActiveLoans(loans) :
          /\ loans[l].user_id = int(last.args[1])
          /\ loans[l].book_id = int(last.args[2])

\* C7: when a successful borrow is followed by the successful return of the
\* loan it created, every book has the available_copies and total_copies it
\* had before the borrow.
C7_BorrowReturnRestores ==
    (snap.set /\ snap.returned) => books = snap.books

\* A borrow and the return of its loan, with a second book in the catalogue.
C7_Witness ==
    /\ snap.set
    /\ snap.returned
    /\ Len(books) = 2
    /\ loans[snap.loan_id].return_date # NULL

\* C8 as claimed: every loan's due_date is exactly 14 days after its
\* borrow_date.
C8_Claimed ==
    \A i \in DOMAIN loans :
        strptime(loans[i].due_date) = strptime(loans[i].borrow_date) + LoanPeriod

\* C9: for every due date and every today, return_book and list_loans both
\* compute days_late = max(today - due, 0) and fine = 5 * days_late: the fine
\* is 0 when today <= due, never negative, and 5 more than the day before on
\* every late day; the fine return_book reports is 5 * max(return_date -
\* due_date, 0) for the return_date it stores.
C9_FineIsFivePerLateDay ==
    calc.pc # "input" =>
        LET late == IF calc.today > calc.due THEN calc.today - calc.due ELSE 0
        IN  /\ calc.out = <<late, 5 * late>>
            /\ calc.today <= calc.due => calc.out[2] = 0
            /\ calc.out[2] >= 0
            /\ calc.prev # <<>> =>
                  calc.out[2] - calc.prev[2] = IF calc.today > calc.due THEN 5 ELSE 0
            /\ calc.pc = "return" =>
                  calc.out[2]
                    = 5 * Max(strptime(calc.return_date) - strptime(calc.due_date), 0)

\* A return three days after the due date, fined 15, a day after a fine of 10,
\* with the due date and the return in different years.
C9_Witness ==
    /\ calc.pc = "return"
    /\ calc.today = calc.due + 3
    /\ calc.out = <<3, 15>>
    /\ calc.prev = <<2, 10>>
    /\ calc.due_date[1] < calc.return_date[1]

\* The step serves a return request whose loan id is a number.
ReturnStep == last'.op = "return" /\ IsInt(last'.args[1])

\* C10: a return of a loan id that matches no loan, or a loan already
\* returned, fails with NotFoundError and changes no loan and no book.
C10_ReturnOnlyActive ==
    [][(/\ ReturnStep
        /\ LET l == int(last'.args[1])
           IN  l \notin DOMAIN loans \/ loans[l].return_date # NULL)
       => (/\ last'.error = NotFoundError
           /\ loans' = loans
           /\ books' = books)]_vars

\* A second return of a loan that was already returned, refused.
C10_Witness ==
    /\ last.op = "return"
    /\ last.error = NotFoundError
    /\ int(last.args[1]) \in DOMAIN loans
    /\ loans[int(last.args[1])].return_date # NULL
    /\ books[loans[int(last.args[1])].book_id].available_copies
          = books[loans[int(last.args[1])].book_id].total_copies

AddBookStep == last'.op = "add_book"

\* The form of the add_book request has an empty field or a total_copies that
\* is not a positive integer.
BadBookForm(form) ==
    \/ \E k \in 1 .. 4 : form[k] = ""
    \/ form[4] \notin {"1", "2", "3"}

\* C12: an add_book with every field filled and total_copies = n > 0, when it
\* succeeds, appends exactly one book, with total_copies = available_copies =
\* n; an add_book with an empty field or a total_copies that is no positive
\* integer fails with a validation error and leaves the books as they were.
C12_AddBookCopies ==
    [][AddBookStep =>
         /\ last'.error = NoError =>
               /\ ~BadBookForm(last'.args)
               /\ Len(books') = Len(books) + 1
               /\ SubSeq(books', 1, Len(books)) = books
               /\ books'[Len(books')].total_copies = int(last'.args[4])
               /\ books'[Len(books')].available_copies = int(last'.args[4])
               /\ books'[Len(books')].isbn = last'.args[3]
         /\ BadBookForm(last'.args) =>
               /\ last'.error \in {BookFieldsError, BookNumberError, BookPositiveError}
               /\ books' = books]_vars

\* A book added with two copies, after a book added with one.
C12_Witness ==
    /\ last.op = "add_book"
    /\ last.error = NoError
    /\ last.args[4] = "2"
    /\ Len(books) = 2
    /\ books[2].total_copies = 2
    /\ books[2].available_copies = 2
    /\ books[1].total_copies = 1

\* No two rows of the books table have the same isbn.
IsbnsDiffer(bks) ==
    \A i, j \in DOMAIN bks : bks[i].isbn = bks[j].isbn => i = j

\* C13: an add_book whose INSERT runs while a book already has its isbn ends
\* with the conflict error and leaves the books table as it was; and whatever
\* add_book requests have run, one after another or overlapping, no two books
\* share an isbn.
C13_IsbnUnique ==
    [][/\ \A p \in Procs :
             (/\ pc[p] = "insert_book"
              /\ pc'[p] # "insert_book"
              /\ res' # "raised"
              /\ \E i \in DOMAIN books : books[i].isbn = req[p].form[3])
             => /\ res' = BookConflictError
                /\ books' = books
                /\ ~tx'[p].open
       /\ IsbnsDiffer(books')
       /\ \A p \in Procs : tx'[p].open => IsbnsDiffer(tx'[p].books)]_vars

\* An add_book has just been refused for its isbn while the other request,
\* validated before it, holds the second book of the table in its transaction.
C13_Witness ==
    /\ res = BookConflictError
    /\ Len(books) = 1
    /\ \E p \in Procs :
          /\ pc[p] = "commit_row"
          /\ Len(tx[p].books) = 2

\* No two rows of the users table have the same email.
EmailsDiffer(usrs) ==
    \A i, j \in DOMAIN usrs : usrs[i].email = usrs[j].email => i = j

\* C14: an add_user whose INSERT runs while a user already has its email ends
\* with the conflict error and leaves the users table as it was; and whatever
\* add_user requests have run, one after another or overlapping, no two users
\* share an email.
C14_EmailUnique ==
    [][/\ \A p \in Procs :
             (/\ pc[p] = "insert_user"
              /\ pc'[p] # "insert_user"
              /\ res' # "raised"
              /\ \E i \in DOMAIN users : users[i].email = req[p].form[2])
             => /\ res' = UserConflictError
                /\ users' = users
                /\ ~tx'[p].open
       /\ EmailsDiffer(users')
       /\ \A p \in Procs : tx'[p].open => EmailsDiffer(tx'[p].users)]_vars

\* Two users are registered and an add_user has just been refused for its
\* email while the other request is about to insert a taken email too.
C14_Witness ==
    /\ res = UserConflictError
    /\ Len(users) = 2
    /\ \E p \in Procs :
          /\ pc[p] = "insert_user"
          /\ \E i \in DOMAIN users : users[i].email = req[p].form[2]

\* The last request rendered a list of active loans.
Listed == last.op \in {"loans", "return_form"}

\* C15: the list GET /loans renders, and the one the return form offers, holds
\* every loan whose return_date is NULL, once each, and no other loan, in
\* ascending order of due_date.
C15_Claimed ==
    Listed =>
       /\ {last.out[k].id : k \in DOMAIN last.out} = ActiveLoans(loans)
       /\ \A k, l \in DOMAIN last.out :
             /\ last.out[k].id = last.out[l].id => k = l
             /\ k < l => strptime(last.out[k].due_date)
                            <= strptime(last.out[l].due_date)

\* C16: every loan's user_id is the id of a registered user and its book_id
\* the id of a book of the catalogue.
C16_Claimed ==
    \A i \in DOMAIN loans :
       /\ loans[i].user_id \in DOMAIN users
       /\ loans[i].book_id \in DOMAIN books

\* Loans of book b.
LoansOf(b) == {i \in DOMAIN loans : loans[i].book_id = b}

\* C17: while no loan has been returned, the borrow requests of a book that
\* succeeded, overlapping or not, are no more than the copies the book had
\* available at the start (all of them: nothing was lent); and
\* available_copies is never negative.
C17_Claimed ==
    \A b \in DOMAIN books :
       /\ books[b].available_copies >= 0
       /\ ActiveLoans(loans) = DOMAIN loans
             => Cardinality(LoansOf(b)) <= books[b].total_copies

\* C18: of the borrow requests of one user for one book, overlapping or not,
\* at most one holds an unreturned loan.
C18_Claimed ==
    \A i \in DOMAIN loans :
       Cardinality({j \in ActiveLoans(loans) :
                       /\ loans[j].user_id = loans[i].user_id
                       /\ loans[j].book_id = loans[i].book_id}) <= 1

\* C19: return_book requests of one loan, overlapping or not, increment the
\* book's available_copies once: it never exceeds total_copies, and it is
\* total_copies less the book's unreturned loans.
C19_Claimed ==
    \A b \in DOMAIN books :
       /\ books[b].available_copies <= books[b].total_copies
       /\ books[b].available_copies
             = books[b].total_copies
                 - Cardinality(LoansOf(b) \cap ActiveLoans(loans))

\* C20: once a request has finished, on whatever path, the connection it
\* opened is closed: a slot with no request running holds no open connection.
C20_Claimed ==
    \A p \in Procs : pc[p] = "idle" => conns[p] = 0

====
